---------------------------- MODULE Spec2Model ----------------------------
(***************************************************************************)
(* Streaming, memory-bounded batch processor of ml-data-research:          *)
(*   src/src/processing/chunked_processor.py  (ChunkedProcessor and its    *)
(*        local / remote subclasses)                                       *)
(*   src/src/ingestion/remote_storage.py      (HetznerStorage batch reads) *)
(*   src/src/processing/duckdb_processor.py   (DuckDBProcessor statistics) *)
(*                                                                         *)
(* A parquet file is a sequence of row groups, a row group a sequence of   *)
(* rows.  A row carries its position in the file (id), a grouping column   *)
(* (key) and a value column (val).  One run of one operation is one        *)
(* behaviour: Init draws the file, the chunk size and the operation's      *)
(* arguments, every loop iteration of the operation is one step.           *)
(***************************************************************************)
EXTENDS Integers, Sequences, FiniteSets

(* ------------------------------ bounds -------------------------------- *)
MaxRows == 3
MaxGroups == 2
MaxChunk == 2
MaxCeiling == 2

(* ------------------------------ values -------------------------------- *)
\* A cell of the value column / a Python float.
Num(n) == [t |-> "num", n |-> n]
NaN    == [t |-> "nan", n |-> 0]
PosInf == [t |-> "inf", n |-> 0]
NegInf == [t |-> "ninf", n |-> 0]
BadStr == [t |-> "str", n |-> 0]
\* a string cell that spells a number, such as "1"
NumStr(n) == [t |-> "numstr", n |-> n]
SqlNull == [t |-> "null", n |-> 0]

NullKey == "<NA>"
Keys == {"A", "B"}

\* Python's a < b on floats: every comparison with NaN is False.
FloatLt(a, b) ==
    CASE a.t = "nan" \/ b.t = "nan" -> FALSE
      [] a.t = "ninf" -> b.t # "ninf"
      [] a.t = "inf"  -> FALSE
      [] b.t = "inf"  -> TRUE
      [] b.t = "ninf" -> FALSE
      [] OTHER        -> a.n < b.n

\* Python's builtin min(a, b): b only if b < a.  max(a, b): b only if b > a.
PyMin(a, b) == IF FloatLt(b, a) THEN b ELSE a
PyMax(a, b) == IF FloatLt(a, b) THEN b ELSE a

(* -------------------------- sequence helpers -------------------------- *)
RECURSIVE SumSeq(_)
SumSeq(s) == IF s = <<>> THEN 0 ELSE Head(s) + SumSeq(Tail(s))

RECURSIVE Concat(_)
Concat(ss) == IF ss = <<>> THEN <<>> ELSE Head(ss) \o Concat(Tail(ss))

RECURSIVE MinSeq(_)
MinSeq(s) == IF Len(s) = 1 THEN s[1]
             ELSE LET m == MinSeq(Tail(s)) IN IF s[1] <= m THEN s[1] ELSE m

RECURSIVE MaxSeq(_)
MaxSeq(s) == IF Len(s) = 1 THEN s[1]
             ELSE LET m == MaxSeq(Tail(s)) IN IF s[1] >= m THEN s[1] ELSE m

RECURSIVE Gcd(_, _)
Gcd(a, b) == IF b = 0 THEN a ELSE Gcd(b, a % b)

\* The float s / c of two integers, kept exact as a reduced fraction.
Ratio(s, c) == LET g == Gcd(s, c) IN [num |-> s \div g, den |-> c \div g]

\* batch[column]: the value column of a sequence of rows
Column(rows) == [i \in 1..Len(rows) |-> rows[i].val]
\* the numbers held by a sequence of float cells, and their squares
Floats(col) == [i \in 1..Len(col) |-> col[i].n]
Squares(col) == [i \in 1..Len(col) |-> col[i].n * col[i].n]

(* ------------------------------ the file ------------------------------ *)
Layouts ==
    {l \in UNION {[1..n -> 0..MaxRows] : n \in 0..MaxGroups} : SumSeq(l) <= MaxRows}

RECURSIVE BuildFile(_, _, _)
\* Row groups of sizes lay over the rows cells[from+1 ..].
BuildFile(lay, cells, from) ==
    IF lay = <<>> THEN <<>>
    ELSE <<[i \in 1..Head(lay) |->
              [id |-> from + i, key |-> cells[from + i].key, val |-> cells[from + i].val]]>>
         \o BuildFile(Tail(lay), cells, from + Head(lay))

\* the numbers a value cell holds
NumVals == {Num(1), Num(2)}

(* ------------------------------- state -------------------------------- *)
VARIABLES
    op,              \* the operation this run performs
    file,            \* the parquet file: a sequence of row groups
    chunk_size,      \* ChunkedProcessor.chunk_size
    max_memory_mb,   \* ChunkedProcessor.max_memory_mb
    output_path,     \* whether the caller passed an output_path
    agg_func,        \* the function of agg_spec for the value column
    pc,              \* "iter" while the batch loop runs, then "done" or "error"
    rg, off,         \* LocalChunkedProcessor.read_batches: row group and offset i
    batch_idx,       \* number of batches yielded so far (enumerate / range(batches))
    batch,           \* the batch last yielded by the source
    delivered,       \* history: the batches yielded so far, in order
    all_groups,      \* aggregate_rows_chunked: group key -> running value
    stats,           \* compute_statistics_chunked: the accumulators
    result_batches,  \* filter / select: matches kept in memory
    total_read, total_matched,
    out_file,        \* the file at output_path: [exists, rows]
    spilled,         \* history: an intermediate write to disk happened
    result,          \* what the operation returned
    error,           \* the exception that left the operation, "none" if none
    handle,          \* the file handle the source holds: "none", "open", "closed"
    file_exists,     \* whether the dataset is there
    path_ext,        \* the extension of the dataset's path
    sample_len,      \* len(stats['values_sample']) where only its size is followed
    metrics_history, \* MetricsCollector.metrics_history
    current_metrics, \* MetricsCollector._current_metrics
    monitoring,      \* MetricsCollector._monitoring
    ctx_stack,       \* the MetricsContext blocks entered and not yet left
    exited,          \* history: the block left by the last step
    records,         \* the OperationMetrics objects created, by identity
    threads,         \* the sampling threads started: position and locals
    monitor_thread,  \* MetricsCollector._monitor_thread, 0 for None
    main_pc          \* the caller's position inside stop_monitoring

vars == <<op, file, chunk_size, max_memory_mb, output_path, agg_func, pc, rg, off,
          batch_idx, batch, delivered, all_groups, stats, result_batches, total_read,
          total_matched, out_file, spilled, result, error, handle, file_exists,
          path_ext, sample_len, metrics_history, current_metrics, monitoring,
          ctx_stack, exited, records, threads, monitor_thread, main_pc>>

\* the objects and threads behind the collector, followed step by step
monitorVars == <<records, threads, monitor_thread, main_pc>>

\* what no step of a processor run changes
envVars == <<file_exists, path_ext, metrics_history, current_metrics,
             monitoring, ctx_stack, exited, records, threads, monitor_thread, main_pc>>

AllRows == Concat(file)
NoFile == [exists |-> FALSE, rows |-> <<>>]
NoStats == [count |-> 0, sum |-> 0, sum_sq |-> 0, min |-> PosInf, max |-> NegInf,
            values_sample |-> <<>>]
NoResult == [kind |-> "none"]
EmptyGroups == [k \in {} |-> 0]
NoMetrics == [operation_name |-> "None"]
NoExit == [left |-> FALSE]

(* ---------------- LocalChunkedProcessor.read_batches ------------------ *)
Min2(a, b) == IF a <= b THEN a ELSE b

\* df.iloc[i:i+chunk_size]
LocalSliceOffByOne(df, i, cs) == SubSeq(df, i + 1, Min2(i + cs + 1, Len(df)))
LocalSlice(df, i, cs) == SubSeq(df, i + 1, Min2(i + cs, Len(df)))

\* the scan that ends with the row group it is in
LocalSeekOneGroup(f, g, i) ==
    IF g <= Len(f) /\ i < Len(f[g]) THEN [rg |-> g, off |-> i]
    ELSE [rg |-> Len(f) + 1, off |-> 0]

RECURSIVE LocalSeek(_, _, _)
\* The nested loops "for rg in range(num_row_groups): for i in range(0, len(df),
\* chunk_size)" resumed at row group g, offset i: where the next batch starts.
LocalSeek(f, g, i) ==
    IF g > Len(f) THEN [rg |-> g, off |-> 0]
    ELSE IF i < Len(f[g]) THEN [rg |-> g, off |-> i]
    ELSE LocalSeek(f, g + 1, 0)

\* "if not file_path.exists()": the dataset is not there
DatasetMissingNever == FALSE
DatasetMissing == ~file_exists

LocalHasNext == LocalSeek(file, rg, off).rg <= Len(file)
LocalNextBatch ==
    LET p == LocalSeek(file, rg, off) IN LocalSlice(file[p.rg], p.off, chunk_size)

\* The generator runs to its next yield.
LocalAdvance ==
    LET p == LocalSeek(file, rg, off) IN
    /\ rg' = p.rg
    /\ off' = p.off + chunk_size
    /\ batch' = LocalNextBatch
    /\ delivered' = Append(delivered, LocalNextBatch)
    /\ handle' = "open"

(* ------------------------------ Init ---------------------------------- *)
InitCommon ==
    /\ chunk_size \in 1..MaxChunk
    /\ pc = "iter"
    /\ rg = 1 /\ off = 0
    /\ batch_idx = 0
    /\ batch = <<>>
    /\ delivered = <<>>
    /\ all_groups = EmptyGroups
    /\ stats = NoStats
    /\ result_batches = <<>>
    /\ total_read = 0 /\ total_matched = 0
    /\ spilled = FALSE
    /\ result = NoResult
    /\ error = "none"
    /\ handle = "none"
    /\ sample_len = 0
    /\ metrics_history = <<>>
    /\ current_metrics = NoMetrics
    /\ monitoring = FALSE
    /\ ctx_stack = <<>>
    /\ exited = NoExit
    /\ records = <<>>
    /\ threads = <<>>
    /\ monitor_thread = 0
    /\ main_pc = "idle"

InitFile(Cells) ==
    \E lay \in Layouts : \E cells \in [1..SumSeq(lay) -> Cells] :
        file = BuildFile(lay, cells, 0)

(* --------------- reading a local file batch by batch ------------------ *)
ReadCells == {[key |-> k, val |-> v] : k \in Keys, v \in NumVals}

InitLocalRead ==
    /\ op = "read_local"
    /\ InitFile(ReadCells)
    /\ max_memory_mb = MaxCeiling
    /\ output_path = FALSE
    /\ agg_func = "none"
    /\ InitCommon
    /\ file_exists = TRUE
    /\ path_ext = ".parquet"
    /\ out_file = NoFile

\* for batch in processor.read_batches(path): one iteration of the caller's loop
LocalYield ==
    /\ op = "read_local" /\ pc = "iter"
    /\ LocalHasNext
    /\ LocalAdvance
    /\ batch_idx' = batch_idx + 1
    /\ UNCHANGED <<op, file, chunk_size, max_memory_mb, output_path, agg_func, pc,
                   all_groups, stats, result_batches, total_read, total_matched,
                   out_file, spilled, result>>
    /\ UNCHANGED <<error, envVars>>
    /\ UNCHANGED sample_len
    /\ ~DatasetMissing

\* the generator returns: the loops are exhausted
LocalExhausted ==
    /\ op = "read_local" /\ pc = "iter"
    /\ ~LocalHasNext
    /\ pc' = "done"
    /\ UNCHANGED <<op, file, chunk_size, max_memory_mb, output_path, agg_func, rg, off,
                   batch_idx, batch, delivered, all_groups, stats, result_batches, total_read,
                   total_matched, out_file, spilled, result>>
    /\ handle' = "open"
    /\ UNCHANGED <<error, envVars>>
    /\ UNCHANGED sample_len
    /\ ~DatasetMissing

\* the operations that read through LocalChunkedProcessor.read_batches
LocalOps == {"read_local", "filter", "aggregate", "statistics", "select"}

\* raise FileNotFoundError(...): the first next() on the generator raises, and
\* no operation catches it
LocalNotFound ==
    /\ op \in LocalOps /\ pc = "iter"
    /\ DatasetMissing
    /\ pc' = "error"
    /\ error' = "FileNotFoundError"
    /\ UNCHANGED <<op, file, chunk_size, max_memory_mb, output_path, agg_func, rg, off,
                   batch_idx, batch, delivered, all_groups, stats, result_batches, total_read,
                   total_matched, out_file, spilled, result>>
    /\ UNCHANGED <<handle, envVars>>
    /\ UNCHANGED sample_len

\* the next batch is the first slice of a row group not read yet
LocalReadsRowGroup ==
    LocalHasNext /\ (batch_idx = 0 \/ LocalSeek(file, rg, off).rg # rg)

\* The caller leaves its loop before the generator is exhausted and the
\* generator is finalised. read_batches has no with, finally or close() around
\* the ParquetFile: the file is closed when the interpreter destroys the
\* object, at once or later, depending on the interpreter.
LocalStop ==
    /\ op = "read_local" /\ pc = "iter"
    /\ batch_idx > 0 /\ LocalHasNext
    /\ pc' = "stopped"
    /\ handle' \in {"open", "closed"}
    /\ UNCHANGED <<op, file, chunk_size, max_memory_mb, output_path, agg_func, rg, off,
                   batch_idx, batch, delivered, all_groups, stats, result_batches, total_read,
                   total_matched, out_file, spilled, result>>
    /\ UNCHANGED <<error, envVars>>
    /\ UNCHANGED sample_len

\* "except Exception as e: console.print(...); raise": the clause ends by raise;
\* without it the generator would return as if the file had ended
ExceptSwallows == FALSE
ExceptReraises == TRUE

\* parquet_file.read_row_group raises; the except clause prints and re-raises.
\* The traceback of the exception refers to the generator's frame, whose local
\* parquet_file keeps the file open.
LocalReadFail ==
    /\ op \in LocalOps /\ pc = "iter"
    /\ ~DatasetMissing
    /\ LocalReadsRowGroup
    /\ IF ExceptReraises
       THEN /\ pc' = "error"
            /\ error' = "OSError"
            /\ UNCHANGED <<rg, off>>
       ELSE /\ rg' = Len(file) + 1 /\ off' = 0
            /\ UNCHANGED <<pc, error>>
    /\ handle' = "open"
    /\ UNCHANGED <<op, file, chunk_size, max_memory_mb, output_path, agg_func,
                   batch_idx, batch, delivered, all_groups, stats, result_batches, total_read,
                   total_matched, out_file, spilled, result>>
    /\ UNCHANGED envVars
    /\ UNCHANGED sample_len

\* the interpreter destroys the ParquetFile object left behind
LocalCollect ==
    /\ pc \in {"stopped", "error", "done"}
    /\ handle = "open"
    /\ op # "read_remote"
    /\ handle' = "closed"
    /\ UNCHANGED <<op, file, chunk_size, max_memory_mb, output_path, agg_func, pc, rg, off,
                   batch_idx, batch, delivered, all_groups, stats, result_batches, total_read,
                   total_matched, out_file, spilled, result>>
    /\ UNCHANGED <<error, envVars>>
    /\ UNCHANGED sample_len

NextLocalRead ==
    LocalYield \/ LocalExhausted \/ LocalStop \/ LocalReadFail \/ LocalCollect
SpecLocalRead == InitLocalRead /\ [][NextLocalRead]_vars

\* C6: every batch yielded by LocalChunkedProcessor.read_batches has at least one
\* row and at most chunk_size rows, whatever the row-group layout and chunk size.
C6_LocalBatchSize ==
    (op = "read_local" /\ batch_idx > 0) => (Len(batch) >= 1 /\ Len(batch) <= chunk_size)

\* a row group longer than chunk_size was re-chunked, next to an empty row group
C6_Witness ==
    /\ op = "read_local" /\ batch_idx >= 2
    /\ \E g \in 1..Len(file) : Len(file[g]) > chunk_size
    /\ \E g \in 1..Len(file) : Len(file[g]) = 0
    /\ Len(batch) < chunk_size

(* -------- HetznerStorage.read_parquet_batch (remote parquet) ---------- *)
\* batches = (total_rows + batch_size - 1) // batch_size
RemoteBatches(f, batch_size) == (Len(Concat(f)) + batch_size - 1) \div batch_size

\* parquet_file.read(row_groups=[batch_idx]): the whole row group, or an error
\* when the file has no such row group
RemoteReadable(f, idx) == idx < Len(f)
RemoteRead(f, idx) == f[idx + 1]

\* RemoteChunkedProcessor.read_batches: the reader chosen by path.endswith(...)
ReadBatchesReader(ext) ==
    IF ext = ".parquet" THEN "read_parquet_batch"
    ELSE IF ext = ".tbl" THEN "read_tbl_batch"
    ELSE IF ext \in {".dat", ".csv"} THEN "read_dat_batch"
    ELSE "read_auto_format"

\* HetznerStorage.read_auto_format: the same choice, ValueError at its end
AutoFormatReaderParquet(ext) == "read_parquet_batch"
AutoFormatReader(ext) ==
    IF ext = ".parquet" THEN "read_parquet_batch"
    ELSE IF ext = ".tbl" THEN "read_tbl_batch"
    ELSE IF ext \in {".dat", ".csv"} THEN "read_dat_batch"
    ELSE "ValueError"

RemoteReader(ext) ==
    IF ReadBatchesReader(ext) = "read_auto_format" THEN AutoFormatReader(ext)
    ELSE ReadBatchesReader(ext)

\* the paths followed: a parquet file and a file of no known extension
RemoteExts == {".parquet", ".json"}

InitRemoteRead ==
    /\ op = "read_remote"
    /\ InitFile(ReadCells)
    /\ max_memory_mb = MaxCeiling
    /\ output_path = FALSE
    /\ agg_func = "none"
    /\ InitCommon
    /\ file_exists = TRUE
    /\ path_ext \in RemoteExts
    /\ out_file = NoFile

\* read_auto_format raises ValueError("Unsupported file format"); the except
\* clause of read_batches prints and re-raises
RemoteUnsupported ==
    /\ op = "read_remote" /\ pc = "iter"
    /\ RemoteReader(path_ext) = "ValueError"
    /\ pc' = "error"
    /\ error' = "ValueError"
    /\ UNCHANGED <<op, file, chunk_size, max_memory_mb, output_path, agg_func, rg, off,
                   batch_idx, batch, delivered, all_groups, stats, result_batches, total_read,
                   total_matched, out_file, spilled, result>>
    /\ UNCHANGED <<handle, envVars>>
    /\ UNCHANGED sample_len

\* RemoteChunkedProcessor.read_batches re-yields what read_parquet_batch yields
RemoteYield ==
    /\ op = "read_remote" /\ pc = "iter"
    /\ RemoteReader(path_ext) = "read_parquet_batch"
    /\ batch_idx < RemoteBatches(file, chunk_size)
    /\ RemoteReadable(file, batch_idx)
    /\ batch' = RemoteRead(file, batch_idx)
    /\ delivered' = Append(delivered, RemoteRead(file, batch_idx))
    /\ batch_idx' = batch_idx + 1
    /\ UNCHANGED <<op, file, chunk_size, max_memory_mb, output_path, agg_func, pc, rg, off,
                   all_groups, stats, result_batches, total_read, total_matched,
                   out_file, spilled, result>>
    /\ handle' = "open"
    /\ UNCHANGED <<error, envVars>>
    /\ UNCHANGED sample_len

\* the read raises; both except clauses print and re-raise
RemoteFail ==
    /\ op = "read_remote" /\ pc = "iter"
    /\ RemoteReader(path_ext) = "read_parquet_batch"
    /\ batch_idx < RemoteBatches(file, chunk_size)
    /\ ~RemoteReadable(file, batch_idx)
    /\ pc' = "error"
    /\ UNCHANGED <<op, file, chunk_size, max_memory_mb, output_path, agg_func, rg, off,
                   batch_idx, batch, delivered, all_groups, stats, result_batches, total_read,
                   total_matched, out_file, spilled, result>>
    /\ handle' = "closed"
    /\ error' = "Exception"
    /\ UNCHANGED envVars
    /\ UNCHANGED sample_len

RemoteExhausted ==
    /\ op = "read_remote" /\ pc = "iter"
    /\ RemoteReader(path_ext) = "read_parquet_batch"
    /\ batch_idx >= RemoteBatches(file, chunk_size)
    /\ pc' = "done"
    /\ UNCHANGED <<op, file, chunk_size, max_memory_mb, output_path, agg_func, rg, off,
                   batch_idx, batch, delivered, all_groups, stats, result_batches, total_read,
                   total_matched, out_file, spilled, result>>
    /\ handle' = "closed"
    /\ UNCHANGED <<error, envVars>>
    /\ UNCHANGED sample_len

\* The caller leaves its loop before range(batches) is exhausted and the
\* generator is finalised: "with self.s3.open(...) as f" closes f.
RemoteStop ==
    /\ op = "read_remote" /\ pc = "iter"
    /\ RemoteReader(path_ext) = "read_parquet_batch"
    /\ batch_idx > 0 /\ batch_idx < RemoteBatches(file, chunk_size)
    /\ pc' = "stopped"
    /\ handle' = "closed"
    /\ UNCHANGED <<op, file, chunk_size, max_memory_mb, output_path, agg_func, rg, off,
                   batch_idx, batch, delivered, all_groups, stats, result_batches, total_read,
                   total_matched, out_file, spilled, result>>
    /\ UNCHANGED <<error, envVars>>
    /\ UNCHANGED sample_len

NextRemoteRead ==
    RemoteYield \/ RemoteFail \/ RemoteExhausted \/ RemoteStop \/ RemoteUnsupported
SpecRemoteRead == InitRemoteRead /\ [][NextRemoteRead]_vars

\* C11: once the caller has stopped consuming the batch sequence before its end,
\* or the iteration has ended by an error, the source holds no open handle.
C11_HandlesReleased ==
    (op \in {"read_local", "read_remote"} /\ pc \in {"stopped", "error"})
        => handle # "open"

\* C13: for a remote dataset whose extension is none of .parquet, .tbl, .dat,
\* .csv, read_batches ends by the unsupported-format error, no file was opened
\* and no batch was yielded.
C13_UnsupportedFormatFailsFirst ==
    (op = "read_remote" /\ path_ext \notin {".parquet", ".tbl", ".dat", ".csv"}) =>
        /\ delivered = <<>> /\ batch_idx = 0
        /\ handle = "none"
        /\ pc \in {"iter", "error"}
        /\ pc = "error" => error = "ValueError"

C13_Witness ==
    /\ op = "read_remote" /\ path_ext = ".json" /\ file # <<>>
    /\ pc = "error" /\ error = "ValueError"

\* C7: every batch yielded for a remote parquet file has at most batch_size
\* (= chunk_size) rows, whatever the row-group layout.
C7_RemoteBatchSize ==
    (op = "read_remote" /\ batch_idx > 0) => Len(batch) <= chunk_size

(* ------------- ChunkedProcessor.aggregate_rows_chunked ---------------- *)
AggFuncs == {"sum", "count", "mean", "min", "max"}
AggCells == {[key |-> k, val |-> v] : k \in Keys \cup {NullKey}, v \in NumVals}

\* one aggregation function of pandas over the values of one group
AggOf(func, vals) ==
    CASE func = "sum"   -> SumSeq(vals)
      [] func = "count" -> Len(vals)
      [] func = "mean"  -> Ratio(SumSeq(vals), Len(vals))
      [] func = "min"   -> MinSeq(vals)
      [] func = "max"   -> MaxSeq(vals)

GroupVals(rows, k) == Floats(Column(SelectSeq(rows, LAMBDA r : r.key = k)))

\* df.groupby(group_by).agg(agg_spec): one value per group key present in rows;
\* groupby drops the rows whose key is null (dropna=True is the default)
GroupAgg(rows, func) ==
    [k \in {rows[i].key : i \in 1..Len(rows)} \ {NullKey} |-> AggOf(func, GroupVals(rows, k))]

\* the merge of one group's batch value into its running value
MergeGroupAssign(func, running, incoming) == incoming
MergeGroup(func, running, incoming) ==
    IF func \in {"sum", "count"} THEN running + incoming ELSE running

\* for group_key, group_data in batch_grouped.iterrows(): ...
MergeBatch(groups, batch_grouped, func) ==
    [k \in DOMAIN groups \cup DOMAIN batch_grouped |->
        IF k \notin DOMAIN groups THEN batch_grouped[k]
        ELSE IF k \notin DOMAIN batch_grouped THEN groups[k]
        ELSE MergeGroup(func, groups[k], batch_grouped[k])]

InitAggregate ==
    /\ op = "aggregate"
    /\ InitFile(AggCells)
    /\ max_memory_mb = MaxCeiling
    /\ output_path = FALSE
    /\ agg_func \in AggFuncs
    /\ InitCommon
    /\ file_exists = TRUE
    /\ path_ext = ".parquet"
    /\ out_file = NoFile

\* one iteration of "for batch in self.read_batches(path, columns=columns)"
AggBatch ==
    /\ op = "aggregate" /\ pc = "iter"
    /\ LocalHasNext
    /\ agg_func \in AggFuncs
    /\ LocalAdvance
    /\ batch_idx' = batch_idx + 1
    /\ total_read' = total_read + Len(LocalNextBatch)
    /\ all_groups' = MergeBatch(all_groups, GroupAgg(LocalNextBatch, agg_func), agg_func)
    /\ UNCHANGED <<op, file, chunk_size, max_memory_mb, output_path, agg_func, pc,
                   stats, result_batches, total_matched, out_file, spilled, result>>
    /\ UNCHANGED <<error, envVars>>
    /\ UNCHANGED sample_len
    /\ ~DatasetMissing

\* the loop ends: pd.DataFrame.from_dict(all_groups, orient='index')
AggFinish ==
    /\ op = "aggregate" /\ pc = "iter"
    /\ ~LocalHasNext
    /\ result' = [kind |-> "groups", groups |-> all_groups]
    /\ pc' = "done"
    /\ UNCHANGED <<op, file, chunk_size, max_memory_mb, output_path, agg_func, rg, off,
                   batch_idx, batch, delivered, all_groups, stats, result_batches,
                   total_read, total_matched, out_file, spilled>>
    /\ handle' = "open"
    /\ UNCHANGED <<error, envVars>>
    /\ UNCHANGED sample_len
    /\ ~DatasetMissing

\* batch.groupby(group_by).agg(agg_spec) with a function name pandas does not
\* know raises AttributeError on the first batch; nothing catches it
AggRaise ==
    /\ op = "aggregate" /\ pc = "iter"
    /\ LocalHasNext
    /\ agg_func \notin AggFuncs
    /\ LocalAdvance
    /\ batch_idx' = batch_idx + 1
    /\ total_read' = total_read + Len(LocalNextBatch)
    /\ pc' = "error"
    /\ error' = "AttributeError"
    /\ UNCHANGED <<op, file, chunk_size, max_memory_mb, output_path, agg_func,
                   all_groups, stats, result_batches, total_matched, out_file, spilled,
                   result>>
    /\ UNCHANGED envVars
    /\ UNCHANGED sample_len
    /\ ~DatasetMissing

NextAggregate == AggBatch \/ AggFinish
SpecAggregate == InitAggregate /\ [][NextAggregate]_vars

RECURSIVE AggRun(_, _, _)
\* the batch loop of aggregate_rows_chunked over a sequence of batches, from
\* the running groups given
AggRun(batches, func, groups) ==
    IF batches = <<>> THEN groups
    ELSE AggRun(Tail(batches), func,
                MergeBatch(groups, GroupAgg(Head(batches), func), func))

\* the orders in which the batches of s can be delivered
Orders(s) ==
    {[i \in 1..Len(s) |-> s[f[i]]] :
        f \in {g \in [1..Len(s) -> 1..Len(s)] : \A i, j \in 1..Len(s) : g[i] = g[j] => i = j}}

\* C18: in whatever order the batches delivered are delivered, the sum, min and
\* max that aggregate_rows_chunked returns for each group are the same.
C18_OrderIndependent ==
    (op = "aggregate" /\ pc = "done" /\ agg_func \in {"sum", "min", "max"}) =>
        \A o \in Orders(delivered) : AggRun(o, agg_func, EmptyGroups) = result.groups

\* the group key k has rows in at least two of the batches delivered
InTwoBatches(k) ==
    \E i, j \in 1..Len(delivered) :
        /\ i < j
        /\ \E r \in 1..Len(delivered[i]) : delivered[i][r].key = k
        /\ \E r \in 1..Len(delivered[j]) : delivered[j][r].key = k

\* C1: for every partition of the rows into batches, the per-group sum and count
\* returned by aggregate_rows_chunked equal the sum and count of a single
\* groupby over all rows of the dataset.
C1_SumCountEqualSinglePass ==
    (op = "aggregate" /\ pc = "done" /\ agg_func \in {"sum", "count"})
        => result.groups = GroupAgg(AllRows, agg_func)

\* a sum was returned for a group whose rows came in two batches
C1_Witness ==
    /\ op = "aggregate" /\ pc = "done" /\ agg_func = "sum"
    /\ \E k \in Keys : InTwoBatches(k)
    /\ Cardinality(DOMAIN result.groups) = 2

\* C2: for every partition into batches, the mean returned per group equals
\* total_sum / total_count of that group over the whole dataset.
C2_MeanIsTotalSumOverCount ==
    (op = "aggregate" /\ pc = "done" /\ agg_func = "mean")
        => \A k \in DOMAIN result.groups :
              result.groups[k] = Ratio(SumSeq(GroupVals(AllRows, k)), Len(GroupVals(AllRows, k)))

\* C3: for a group that appears in more than one batch, the min (max) returned is
\* the smallest (largest) value of that group over the whole dataset.
C3_MinMaxOverAllBatches ==
    (op = "aggregate" /\ pc = "done" /\ agg_func \in {"min", "max"})
        => \A k \in DOMAIN result.groups :
              InTwoBatches(k) =>
                 result.groups[k] = IF agg_func = "min" THEN MinSeq(GroupVals(AllRows, k))
                                    ELSE MaxSeq(GroupVals(AllRows, k))

(* --------------- ChunkedProcessor.filter_rows_chunked ----------------- *)
FilterCells == {[key |-> "A", val |-> v] : v \in NumVals}

\* the caller's condition, lambda df: df['l_quantity'] > 30, on one row
Condition(r) == r.val.n > 1

\* filtered_batch = batch[mask]
FilterBatchRows(b) == SelectSeq(b, Condition)

\* sum(b.memory_usage(deep=True).sum() / (1024 * 1024) for b in result_batches),
\* in units of one row's footprint
MemoryMB(batches) == Len(Concat(batches))

\* result_batches.append(filtered_batch)
AccumulateReplace(batches, filtered_batch) == <<filtered_batch>>
Accumulate(batches, filtered_batch) == Append(batches, filtered_batch)

\* _write_results(path, batches, append): the file at path afterwards
WriteResults(f, batches, append) ==
    LET combined == Concat(batches) IN
    [exists |-> TRUE,
     rows   |-> IF append /\ f.exists THEN f.rows \o combined ELSE combined]

\* a file left at output_path by an earlier run, with a row that is not of the source
StaleFile == [exists |-> TRUE, rows |-> <<[id |-> 0, key |-> "A", val |-> Num(2)]>>]

InitFilter ==
    /\ op = "filter"
    /\ InitFile(FilterCells)
    /\ max_memory_mb \in 1..MaxCeiling
    /\ output_path \in BOOLEAN
    /\ agg_func = "none"
    /\ InitCommon
    /\ file_exists = TRUE
    /\ path_ext = ".parquet"
    /\ out_file \in (IF output_path THEN {NoFile, StaleFile} ELSE {NoFile})

\* one iteration of "for batch_idx, batch in enumerate(self.read_batches(...))"
FilterBatch ==
    /\ op = "filter" /\ pc = "iter"
    /\ LocalHasNext
    /\ LocalAdvance
    /\ batch_idx' = batch_idx + 1
    /\ LET filtered_batch == FilterBatchRows(LocalNextBatch)
           kept == Accumulate(result_batches, filtered_batch)
       IN /\ total_read' = total_read + Len(LocalNextBatch)
          /\ total_matched' = total_matched + Len(filtered_batch)
          /\ IF Len(filtered_batch) > 0
             THEN IF output_path /\ MemoryMB(kept) > max_memory_mb
                  THEN /\ out_file' = WriteResults(out_file, kept, batch_idx > 0)
                       /\ result_batches' = <<>>
                       /\ spilled' = TRUE
                  ELSE /\ result_batches' = kept
                       /\ UNCHANGED <<out_file, spilled>>
             ELSE UNCHANGED <<result_batches, out_file, spilled>>
    /\ UNCHANGED <<op, file, chunk_size, max_memory_mb, output_path, agg_func, pc,
                   all_groups, stats, result>>
    /\ UNCHANGED <<error, envVars>>
    /\ UNCHANGED sample_len
    /\ ~DatasetMissing

\* "Handle remaining": the loop is over
FilterFinish ==
    /\ op = "filter" /\ pc = "iter"
    /\ ~LocalHasNext
    /\ IF result_batches # <<>>
       THEN /\ result' = [kind |-> "frame", rows |-> Concat(result_batches)]
            /\ out_file' = IF output_path
                            THEN WriteResults(out_file, <<Concat(result_batches)>>, FALSE)
                            ELSE out_file
       ELSE /\ result' = [kind |-> "frame", rows |-> <<>>]
            /\ UNCHANGED out_file
    /\ pc' = "done"
    /\ UNCHANGED <<op, file, chunk_size, max_memory_mb, output_path, agg_func, rg, off,
                   batch_idx, batch, delivered, all_groups, stats, result_batches,
                   total_read, total_matched, spilled>>
    /\ handle' = "open"
    /\ UNCHANGED <<error, envVars>>
    /\ UNCHANGED sample_len
    /\ ~DatasetMissing

NextFilter == FilterBatch \/ FilterFinish
SpecFilter == InitFilter /\ [][NextFilter]_vars

RowSet(rows) == {rows[i] : i \in 1..Len(rows)}

\* C4: the set of rows filter_rows_chunked returns does not depend on the memory
\* ceiling: it is the set returned when nothing is spilled, all matching rows.
C4_ResultIndependentOfCeiling ==
    (op = "filter" /\ pc = "done")
        => RowSet(result.rows) = RowSet(SelectSeq(AllRows, Condition))

\* C5: without an output path, filter_rows_chunked returns exactly the rows that
\* satisfy the predicate, each once and in source order.
C5_FilterReturnsMatches ==
    (op = "filter" /\ pc = "done" /\ ~output_path)
        => result.rows = SelectSeq(AllRows, Condition)

\* matches from two batches and a non-matching row were filtered, the matches
\* weighing more than the ceiling
C5_Witness ==
    /\ op = "filter" /\ pc = "done" /\ ~output_path
    /\ Len(result.rows) >= 2 /\ Len(result.rows) < Len(AllRows)
    /\ Len(result.rows) > max_memory_mb
    /\ \E i, j \in 1..Len(delivered) : i # j /\ FilterBatchRows(delivered[i]) # <<>>
                                            /\ FilterBatchRows(delivered[j]) # <<>>

\* C15: when the matches weigh more than the ceiling and no output path was
\* given, filter_rows_chunked ends by a ResourceExceeded error and returns
\* nothing.
C15_ResourceExceededReported ==
    (/\ op = "filter" /\ pc # "iter" /\ ~output_path
     /\ MemoryMB(<<SelectSeq(AllRows, Condition)>>) > max_memory_mb)
        => (pc = "error" /\ error = "ResourceExceeded" /\ result = NoResult)

(* ------------ ChunkedProcessor.compute_statistics_chunked ------------- *)
\* A parquet column has one type: numbers with nulls, or strings with nulls.
NumericCells == {[key |-> "A", val |-> v] : v \in NumVals \cup {NaN}}
StringCells  == {[key |-> "A", val |-> v] : v \in {NumStr(1), BadStr, NaN}}

\* limits of the percentile sample
SampleCap == 10000
SampleSize == 1000

\* float(x) succeeds
Parseable(c) == c.t \in {"num", "numstr"}
\* float(x): a missing value stays NaN
AsFloat(c) == IF c.t = "nan" THEN NaN ELSE Num(c.n)

\* Series.dropna()
DropNaNone(col) == col
DropNa(col) == SelectSeq(col, LAMBDA c : c.t # "nan")

\* Series.astype(float) raises ValueError on a string that spells no number
AstypeRaises(col) == \E i \in 1..Len(col) : col[i].t = "str"
AstypeFloat(col) == [i \in 1..Len(col) |-> AsFloat(col[i])]

\* Series.min() / Series.max(): NaN for an empty series
SeriesMin(col) == IF col = <<>> THEN NaN ELSE Num(MinSeq(Floats(col)))
SeriesMax(col) == IF col = <<>> THEN NaN ELSE Num(MaxSeq(Floats(col)))

\* min(stats['min'], col_data.min()) and max(stats['max'], col_data.max())
RunningMinSwapped(running, incoming) == PyMin(incoming, running)
RunningMin(running, incoming) == PyMin(running, incoming)
RunningMax(running, incoming) == PyMax(running, incoming)

\* col_data.sample(sample_size): sample_size values of col_data.  Their order is
\* random and read by nothing but median() and quantile(), which sort.
Sample(col, sample_size) == SubSeq(col, 1, sample_size)

\* len(stats['values_sample']) after a batch of n values, given it before
SampleLenAfter(len, n) ==
    IF len < SampleCap THEN len + Min2(SampleSize, n) ELSE len

\* the body of the batch loop on the column of one batch
StatsUpdate(st, col_data) ==
    [count  |-> st.count + Len(col_data),
     sum    |-> st.sum + SumSeq(Floats(col_data)),
     sum_sq |-> st.sum_sq + SumSeq(Squares(col_data)),
     min    |-> RunningMin(st.min, SeriesMin(col_data)),
     max    |-> RunningMax(st.max, SeriesMax(col_data)),
     values_sample |->
        IF Len(st.values_sample) < SampleCap
        THEN st.values_sample \o Sample(col_data, Min2(SampleSize, Len(col_data)))
        ELSE st.values_sample]

InitStatistics ==
    /\ op = "statistics"
    /\ (InitFile(NumericCells) \/ InitFile(StringCells))
    /\ max_memory_mb = MaxCeiling
    /\ output_path = FALSE
    /\ agg_func = "none"
    /\ InitCommon
    /\ file_exists = TRUE
    /\ path_ext = ".parquet"
    /\ out_file = NoFile

\* one iteration of "for batch in self.read_batches(path, columns=[column])"
StatsBatch ==
    /\ op = "statistics" /\ pc = "iter"
    /\ LocalHasNext
    /\ ~AstypeRaises(DropNa(Column(LocalNextBatch)))
    /\ LocalAdvance
    /\ batch_idx' = batch_idx + 1
    /\ stats' = StatsUpdate(stats, AstypeFloat(DropNa(Column(LocalNextBatch))))
    /\ UNCHANGED <<op, file, chunk_size, max_memory_mb, output_path, agg_func, pc,
                   all_groups, result_batches, total_read, total_matched, out_file,
                   spilled, result>>
    /\ UNCHANGED <<error, envVars>>
    /\ sample_len' = SampleLenAfter(sample_len, Len(DropNa(Column(LocalNextBatch))))
    /\ ~DatasetMissing

\* astype(float) raises on the batch: the ValueError leaves the operation
StatsRaise ==
    /\ op = "statistics" /\ pc = "iter"
    /\ LocalHasNext
    /\ AstypeRaises(DropNa(Column(LocalNextBatch)))
    /\ LocalAdvance
    /\ batch_idx' = batch_idx + 1
    /\ pc' = "error"
    /\ UNCHANGED <<op, file, chunk_size, max_memory_mb, output_path, agg_func,
                   all_groups, stats, result_batches, total_read, total_matched,
                   out_file, spilled, result>>
    /\ error' = "ValueError"
    /\ UNCHANGED envVars
    /\ UNCHANGED sample_len
    /\ ~DatasetMissing

\* "Calculate statistics": the loop is over
StatsFinish ==
    /\ op = "statistics" /\ pc = "iter"
    /\ ~LocalHasNext
    /\ result' = [kind  |-> "stats",
                  count |-> stats.count,
                  mean  |-> IF stats.count > 0 THEN Ratio(stats.sum, stats.count)
                            ELSE Ratio(0, 1),
                  min   |-> stats.min,
                  max   |-> stats.max]
    /\ pc' = "done"
    /\ UNCHANGED <<op, file, chunk_size, max_memory_mb, output_path, agg_func, rg, off,
                   batch_idx, batch, delivered, all_groups, stats, result_batches,
                   total_read, total_matched, out_file, spilled>>
    /\ handle' = "open"
    /\ UNCHANGED <<error, envVars>>
    /\ UNCHANGED sample_len
    /\ ~DatasetMissing

NextStatistics == StatsBatch \/ StatsRaise \/ StatsFinish
SpecStatistics == InitStatistics /\ [][NextStatistics]_vars

(* ---------------- DuckDBProcessor.compute_statistics ------------------ *)
\* SELECT COUNT(*), MIN(column), MAX(column) FROM table: COUNT(*) counts rows,
\* MIN and MAX skip NULL and are NULL when no value is left
DuckDBStatistics(rows) ==
    LET vals == Floats(DropNa(Column(rows))) IN
    [count |-> Len(rows),
     min   |-> IF vals = <<>> THEN SqlNull ELSE Num(MinSeq(vals)),
     max   |-> IF vals = <<>> THEN SqlNull ELSE Num(MaxSeq(vals))]

ColumnValues == Column(AllRows)
ParseableValues == SelectSeq(ColumnValues, Parseable)
IsNumericColumn == \A i \in 1..Len(ColumnValues) : ColumnValues[i].t \in {"num", "nan"}
\* C8: the count returned by compute_statistics_chunked is the number of rows
\* whose value is a parseable number, missing values not counted, for every
\* partition of the input into batches.
C8_CountIsParseableRows ==
    (op = "statistics" /\ pc = "done") => result.count = Len(ParseableValues)

\* a count over several batches of a column with numbers and missing values
C8_Witness ==
    /\ op = "statistics" /\ pc = "done" /\ batch_idx >= 2
    /\ result.count >= 2 /\ result.count < Len(AllRows)

\* C9: for a column with at least one numeric value, min, max and mean returned
\* are the smallest value, the largest value and sum/count of the whole column,
\* however the rows are split into batches.
C9_MinMaxMeanOfWholeColumn ==
    (op = "statistics" /\ pc = "done" /\ ParseableValues # <<>>)
        => LET vals == Floats(ParseableValues) IN
           /\ result.min = Num(MinSeq(vals))
           /\ result.max = Num(MaxSeq(vals))
           /\ result.mean = Ratio(SumSeq(vals), Len(vals))

\* statistics over several batches, the last of them without any number
C9_Witness ==
    /\ op = "statistics" /\ pc = "done" /\ batch_idx >= 2
    /\ ParseableValues # <<>>
    /\ DropNa(Column(batch)) = <<>>
    /\ result.min # result.max

\* C10: count, min and max of compute_statistics_chunked equal those of
\* DuckDBProcessor.compute_statistics on the same column, missing values included
\* (stated here for the numeric columns that hold at least one number).
C10_ChunkedEqualsDuckDB ==
    (op = "statistics" /\ pc = "done" /\ IsNumericColumn /\ ParseableValues # <<>>)
        => /\ result.count = DuckDBStatistics(AllRows).count
           /\ result.min = DuckDBStatistics(AllRows).min
           /\ result.max = DuckDBStatistics(AllRows).max

(* ---------------- ChunkedProcessor.select_columns_chunked ------------- *)
\* read_batches(path, columns=columns): the selected columns of one batch
SelectColumns(b) == [i \in 1..Len(b) |-> [id |-> b[i].id, val |-> b[i].val]]

\* "return None"
ReturnedNone == [kind |-> "NoneType"]

\* one iteration of "for batch in self.read_batches(path, columns=columns)"
SelectBatch ==
    /\ op = "select" /\ pc = "iter"
    /\ ~DatasetMissing
    /\ LocalHasNext
    /\ LocalAdvance
    /\ batch_idx' = batch_idx + 1
    /\ total_read' = total_read + Len(LocalNextBatch)
    /\ LET kept == Append(result_batches, SelectColumns(LocalNextBatch)) IN
       IF output_path /\ MemoryMB(kept) > max_memory_mb
       THEN /\ out_file' = WriteResults(out_file, kept, FALSE)
            /\ result_batches' = <<>>
            /\ spilled' = TRUE
       ELSE /\ result_batches' = kept
            /\ UNCHANGED <<out_file, spilled>>
    /\ UNCHANGED <<op, file, chunk_size, max_memory_mb, output_path, agg_func, pc,
                   all_groups, stats, total_matched, result>>
    /\ UNCHANGED <<error, envVars>>
    /\ UNCHANGED sample_len

\* the loop is over: "if result_batches: ... return result", else "return None"
SelectFinish ==
    /\ op = "select" /\ pc = "iter"
    /\ ~DatasetMissing
    /\ ~LocalHasNext
    /\ IF result_batches # <<>>
       THEN /\ result' = [kind |-> "frame", rows |-> Concat(result_batches)]
            /\ out_file' = IF output_path
                            THEN WriteResults(out_file, <<Concat(result_batches)>>, FALSE)
                            ELSE out_file
       ELSE /\ result' = ReturnedNone
            /\ UNCHANGED out_file
    /\ pc' = "done"
    /\ handle' = "open"
    /\ UNCHANGED <<op, file, chunk_size, max_memory_mb, output_path, agg_func, rg, off,
                   batch_idx, batch, delivered, all_groups, stats, result_batches,
                   total_read, total_matched, spilled>>
    /\ UNCHANGED <<error, envVars>>
    /\ UNCHANGED sample_len

(* ------- every operation of the local processor, on any configuration ------ *)
\* ChunkedProcessor.__init__ stores max_memory_mb as it is given
Ceilings == {-1} \cup 0..MaxCeiling
\* the value column holds strings when statistics are computed over it
TextCells == {[key |-> "A", val |-> v] : v \in {NumStr(1), BadStr}}

InitAnyOperation ==
    /\ op \in LocalOps
    /\ file_exists \in BOOLEAN
    /\ IF file_exists
       THEN IF op = "statistics" THEN InitFile(TextCells) ELSE InitFile(FilterCells)
       ELSE file = <<>>
    /\ max_memory_mb \in (IF op \in {"filter", "select"} THEN Ceilings ELSE {MaxCeiling})
    /\ output_path \in (IF op \in {"filter", "select"} THEN BOOLEAN ELSE {FALSE})
    /\ agg_func \in (IF op = "aggregate" THEN {"sum", "bogus"} ELSE {"none"})
    /\ InitCommon
    /\ path_ext = ".parquet"
    /\ out_file = NoFile

NextAnyOperation ==
    \/ LocalNotFound \/ LocalReadFail \/ LocalCollect
    \/ LocalYield \/ LocalExhausted \/ LocalStop
    \/ FilterBatch \/ FilterFinish
    \/ AggBatch \/ AggRaise \/ AggFinish
    \/ StatsBatch \/ StatsRaise \/ StatsFinish
    \/ SelectBatch \/ SelectFinish
SpecAnyOperation == InitAnyOperation /\ [][NextAnyOperation]_vars

\* C12: on a dataset that does not exist, read_batches yields no batch and
\* raises the not-found error, and filter, aggregate, statistics and select end
\* by that error and return no result.
C12_NotFoundPropagates ==
    ~file_exists =>
        /\ delivered = <<>> /\ batch_idx = 0
        /\ result = NoResult
        /\ pc \in {"iter", "error"}
        /\ pc = "error" => error = "FileNotFoundError"

C12_Witness ==
    /\ ~file_exists /\ op = "aggregate"
    /\ pc = "error" /\ error = "FileNotFoundError"

\* C14: aggregate_rows_chunked with a function name that is not supported ends
\* by an error before any batch is read, on every source, the empty one included.
C14_UnsupportedFunctionFailsFirst ==
    (op = "aggregate" /\ agg_func \notin AggFuncs /\ file_exists) =>
        /\ batch_idx = 0 /\ delivered = <<>>
        /\ pc \in {"iter", "error"}

\* C16: aggregate_rows_chunked and compute_statistics_chunked that ended by an
\* error returned nothing, and what they return they return without error
\* after every batch of the source was delivered.
C16_NoPartialResult ==
    op \in {"aggregate", "statistics"} =>
        /\ pc = "error" => result = NoResult
        /\ result # NoResult =>
               (pc = "done" /\ error = "none" /\ Concat(delivered) = AllRows)

\* the read of the second row group failed with groups already accumulated
C16_Witness ==
    /\ op = "aggregate" /\ pc = "error" /\ error = "OSError"
    /\ batch_idx >= 1 /\ all_groups # EmptyGroups
    /\ Concat(delivered) # AllRows
    /\ result = NoResult

\* C20: with a memory ceiling that is zero or negative no operation reads a
\* batch: it ends by a configuration error first.
C20_CeilingRejectedEagerly ==
    (op \in {"filter", "select"} /\ max_memory_mb <= 0 /\ file_exists) =>
        /\ batch_idx = 0 /\ delivered = <<>>
        /\ pc \in {"iter", "error"}

(* ---- compute_statistics_chunked: the size of the percentile sample ---- *)
\* numbers of non-null values a batch can hold, around the sample size
BatchCounts == {0, 1, SampleSize - 1, SampleSize, SampleSize + 1}
MaxSampleBatches == 12

InitSample ==
    /\ op = "sample"
    /\ file = <<>>
    /\ max_memory_mb = MaxCeiling
    /\ output_path = FALSE
    /\ agg_func = "none"
    /\ InitCommon
    /\ chunk_size = 1
    /\ file_exists = TRUE
    /\ path_ext = ".parquet"
    /\ out_file = NoFile

\* one iteration of the batch loop, seen from values_sample: col_data has n values
SampleBatch ==
    /\ op = "sample" /\ pc = "iter"
    /\ batch_idx < MaxSampleBatches
    /\ \E n \in BatchCounts :
          /\ sample_len' = SampleLenAfter(sample_len, n)
          /\ total_read' = total_read + n
    /\ batch_idx' = batch_idx + 1
    /\ UNCHANGED <<op, file, chunk_size, max_memory_mb, output_path, agg_func, pc, rg, off,
                   batch, delivered, all_groups, stats, result_batches, total_matched,
                   out_file, spilled, result, error, handle>>
    /\ UNCHANGED envVars

\* the loop is over
SampleFinish ==
    /\ op = "sample" /\ pc = "iter"
    /\ pc' = "done"
    /\ UNCHANGED <<op, file, chunk_size, max_memory_mb, output_path, agg_func, rg, off,
                   batch_idx, batch, delivered, all_groups, stats, result_batches, total_read,
                   total_matched, out_file, spilled, result, error, handle>>
    /\ UNCHANGED <<sample_len, envVars>>

NextSample == SampleBatch \/ SampleFinish
SpecSample == InitSample /\ [][NextSample]_vars

\* C17: at every point of compute_statistics_chunked the percentile sample
\* holds at most 10,000 values, whatever the sizes of the batches.
C17_SampleAtMostCap == sample_len <= SampleCap

(* ------------------ MetricsCollector and MetricsContext ---------------- *)
MaxBlocks == 3
MaxSnapshots == 1

\* what no step of the collector changes
procVars == <<op, file, chunk_size, max_memory_mb, output_path, agg_func, pc, rg, off,
              batch_idx, batch, delivered, all_groups, stats, result_batches, total_read,
              total_matched, out_file, spilled, result, error, handle, file_exists,
              path_ext, sample_len>>

OperationNames == {"filter", "aggregate"}
\* rows_processed: <<>> stands for None, <<n>> for the count n
NoRows == <<>>
RowCounts == {<<1>>, <<2>>}

\* OperationMetrics(operation_name=..., ...) as start_monitoring creates it
NewMetrics(name) == [operation_name |-> name, rows_processed |-> NoRows, snapshots |-> 0]

\* MetricsContext.__exit__ returns False: the exception is not suppressed
ExitSuppresses == FALSE

\* stop_monitoring: self._current_metrics.rows_processed = rows_processed; finalize()
FinalizedNoRows(cur, rows_processed) == cur
Finalized(cur, rows_processed) == [cur EXCEPT !.rows_processed = rows_processed]

\* get_latest_metrics()
GetLatestMetrics ==
    IF metrics_history # <<>> THEN metrics_history[Len(metrics_history)] ELSE NoMetrics

InitMetrics ==
    /\ op = "measure"
    /\ file = <<>>
    /\ max_memory_mb = MaxCeiling
    /\ output_path = FALSE
    /\ agg_func = "none"
    /\ InitCommon
    /\ chunk_size = 1
    /\ file_exists = TRUE
    /\ path_ext = ".parquet"
    /\ out_file = NoFile

\* "with collector.measure(name, ...) as ctx:" is entered:
\* MetricsContext.__init__, then __enter__ calls start_monitoring
Enter ==
    /\ op = "measure"
    /\ Len(metrics_history) + Len(ctx_stack) < MaxBlocks
    /\ \E name \in OperationNames :
          /\ current_metrics' = NewMetrics(name)
          /\ ctx_stack' = Append([i \in 1..Len(ctx_stack) |->
                                      [ctx_stack[i] EXCEPT !.overlapped = TRUE]],
                                 [operation_name |-> name, rows_processed |-> NoRows,
                                  overlapped |-> FALSE])
    /\ monitoring' = TRUE
    /\ exited' = NoExit
    /\ UNCHANGED metrics_history
    /\ UNCHANGED procVars
    /\ UNCHANGED monitorVars

\* one round of _monitoring_loop
Snapshot ==
    /\ op = "measure"
    /\ monitoring /\ current_metrics # NoMetrics
    /\ current_metrics.snapshots < MaxSnapshots
    /\ current_metrics' = [current_metrics EXCEPT !.snapshots = @ + 1]
    /\ exited' = NoExit
    /\ UNCHANGED <<metrics_history, monitoring, ctx_stack>>
    /\ UNCHANGED procVars
    /\ UNCHANGED monitorVars

\* ctx.set_rows_processed(count) inside a block, on any context still in scope
SetRowsProcessed ==
    /\ op = "measure"
    /\ \E i \in 1..Len(ctx_stack) : \E count \in RowCounts :
          /\ ctx_stack[i].rows_processed # count
          /\ ctx_stack' = [ctx_stack EXCEPT ![i].rows_processed = count]
    /\ exited' = NoExit
    /\ UNCHANGED <<metrics_history, current_metrics, monitoring>>
    /\ UNCHANGED procVars
    /\ UNCHANGED monitorVars

\* The innermost block is left, normally or by an exception: __exit__ calls
\* stop_monitoring(self.rows_processed) and returns False.
Exit ==
    /\ op = "measure"
    /\ ctx_stack # <<>>
    /\ LET ctx == ctx_stack[Len(ctx_stack)] IN
       \E raised \in BOOLEAN :
          /\ ctx_stack' = SubSeq(ctx_stack, 1, Len(ctx_stack) - 1)
          /\ monitoring' = FALSE
          /\ IF current_metrics # NoMetrics
             THEN /\ metrics_history' =
                        Append(metrics_history, Finalized(current_metrics, ctx.rows_processed))
                  /\ current_metrics' = NoMetrics
             ELSE UNCHANGED <<metrics_history, current_metrics>>
          /\ exited' = [left |-> TRUE, ctx |-> ctx, before |-> Len(metrics_history),
                        raised |-> raised, propagated |-> raised /\ ~ExitSuppresses]
    /\ UNCHANGED procVars
    /\ UNCHANGED monitorVars

NextMetrics == Enter \/ Snapshot \/ SetRowsProcessed \/ Exit
SpecMetrics == InitMetrics /\ [][NextMetrics]_vars

\* the block just left appended one record, which get_latest_metrics returns
\* with the block's name and rows_processed, and let its exception through
RecordedOnExit ==
    /\ Len(metrics_history) = exited.before + 1
    /\ GetLatestMetrics.operation_name = exited.ctx.operation_name
    /\ GetLatestMetrics.rows_processed = exited.ctx.rows_processed
    /\ exited.raised => exited.propagated

C21_UnparsableTreatedAsMissing ==
    (op = "statistics" /\ pc \in {"done", "error"}) =>
        (pc = "done" /\ result.count = Len(ParseableValues))

\* C22: after each batch of filter_rows_chunked the matches kept in memory
\* weigh no more than max_memory_mb.
C22_AccumulationUnderCeiling ==
    op = "filter" => MemoryMB(result_batches) <= max_memory_mb

\* C23: when filter_rows_chunked was given an output path and has reached the
\* end of the source, the file at that path holds every matching row once.
C23_OutputHoldsEveryMatch ==
    (op = "filter" /\ pc = "done" /\ output_path) =>
        /\ RowSet(out_file.rows) = RowSet(SelectSeq(AllRows, Condition))
        /\ Len(out_file.rows) = Len(SelectSeq(AllRows, Condition))

RECURSIVE SumGroups(_, _)
\* the sum of the values of groups over the keys given
SumGroups(groups, keys) ==
    IF keys = {} THEN 0
    ELSE LET k == CHOOSE x \in keys : TRUE IN groups[k] + SumGroups(groups, keys \ {k})

\* C24: the rows whose grouping value is missing form a group of the result of
\* aggregate_rows_chunked: the counts of all groups add up to the number of rows.
C24_NullKeyIsAGroup ==
    (op = "aggregate" /\ pc = "done" /\ agg_func = "count") =>
        /\ SumGroups(result.groups, DOMAIN result.groups) = Len(AllRows)
        /\ (\E i \in 1..Len(AllRows) : AllRows[i].key = NullKey)
              => NullKey \in DOMAIN result.groups

(* ------- MetricsCollector: the sampling thread against its caller ------ *)
MaxStarts == 2

\* the reference start_monitoring stores in _current_metrics
MetricsRef(id) == [operation_name |-> "measured", id |-> id]
\* OperationMetrics(...) just created: no snapshot, summary not computed
NewRecord ==
    [snapshots |-> 0, finalized |-> FALSE, returned |-> FALSE,
     stale |-> FALSE, late |-> FALSE, foreign |-> FALSE]
\* threading.Thread(target=self._monitoring_loop, daemon=True) for record id
NewThread(id) == [pc |-> "while", started_for |-> id, ref |-> 0]

Running(t) == threads[t].pc \notin {"exited", "failed"}

InitMonitor ==
    /\ op = "monitor"
    /\ file = <<>>
    /\ max_memory_mb = MaxCeiling
    /\ output_path = FALSE
    /\ agg_func = "none"
    /\ InitCommon
    /\ chunk_size = 1
    /\ file_exists = TRUE
    /\ path_ext = ".parquet"
    /\ out_file = NoFile

monitorFrame == <<procVars, ctx_stack, exited>>

\* start_monitoring: a new record in _current_metrics, _monitoring = True, a
\* new thread in _monitor_thread, started
StartMonitoring ==
    /\ op = "monitor" /\ main_pc = "idle"
    /\ Len(records) < MaxStarts
    /\ records' = Append(records, NewRecord)
    /\ current_metrics' = MetricsRef(Len(records) + 1)
    /\ monitoring' = TRUE
    /\ threads' = Append(threads, NewThread(Len(records) + 1))
    /\ monitor_thread' = Len(threads) + 1
    /\ UNCHANGED <<metrics_history, main_pc>>
    /\ UNCHANGED monitorFrame

\* stop_monitoring: self._monitoring = False
StopBegin ==
    /\ op = "monitor" /\ main_pc = "idle"
    /\ monitoring' = FALSE
    /\ main_pc' = IF monitor_thread # 0 THEN "join" ELSE "finalize"
    /\ UNCHANGED <<metrics_history, current_metrics, records, threads, monitor_thread>>
    /\ UNCHANGED monitorFrame

\* self._monitor_thread.join(timeout=1.0) returns: the thread has ended
StopJoined ==
    /\ op = "monitor" /\ main_pc = "join"
    /\ ~Running(monitor_thread)
    /\ main_pc' = "finalize"
    /\ UNCHANGED <<metrics_history, current_metrics, monitoring, records, threads,
                   monitor_thread>>
    /\ UNCHANGED monitorFrame

\* join(timeout=1.0) returns after one second, the thread still alive
StopJoinTimeout ==
    /\ op = "monitor" /\ main_pc = "join"
    /\ Running(monitor_thread)
    /\ main_pc' = "finalize"
    /\ UNCHANGED <<metrics_history, current_metrics, monitoring, records, threads,
                   monitor_thread>>
    /\ UNCHANGED monitorFrame

\* "if self._current_metrics:" rows_processed is set and finalize() computes the
\* summary over the snapshots present; with no current record None is returned
StopFinalize ==
    /\ op = "monitor" /\ main_pc = "finalize"
    /\ IF current_metrics # NoMetrics
       THEN /\ records' = [records EXCEPT ![current_metrics.id].finalized = TRUE]
            /\ main_pc' = "return"
       ELSE /\ main_pc' = "idle"
            /\ UNCHANGED records
    /\ UNCHANGED <<metrics_history, current_metrics, monitoring, threads, monitor_thread>>
    /\ UNCHANGED monitorFrame

\* metrics_history.append(...); self._current_metrics = None; return result
StopReturn ==
    /\ op = "monitor" /\ main_pc = "return"
    /\ metrics_history' = Append(metrics_history, current_metrics.id)
    /\ records' = [records EXCEPT ![current_metrics.id].returned = TRUE]
    /\ current_metrics' = NoMetrics
    /\ main_pc' = "idle"
    /\ UNCHANGED <<monitoring, threads, monitor_thread>>
    /\ UNCHANGED monitorFrame

\* "while self._monitoring:" after the sleep of the round before
ThreadWhile ==
    /\ op = "monitor"
    /\ \E t \in 1..Len(threads) :
          /\ threads[t].pc = "while"
          /\ threads' = [threads EXCEPT ![t].pc = IF monitoring THEN "if" ELSE "exited"]
    /\ UNCHANGED <<metrics_history, current_metrics, monitoring, records, monitor_thread,
                   main_pc>>
    /\ UNCHANGED monitorFrame

\* "if self._current_metrics:" and, when it holds, _collect_snapshot()
ThreadIf ==
    /\ op = "monitor"
    /\ \E t \in 1..Len(threads) :
          /\ threads[t].pc = "if"
          /\ threads' = [threads EXCEPT
                            ![t].pc = IF current_metrics # NoMetrics THEN "load" ELSE "while"]
    /\ UNCHANGED <<metrics_history, current_metrics, monitoring, records, monitor_thread,
                   main_pc>>
    /\ UNCHANGED monitorFrame

\* "self._current_metrics.snapshots" is evaluated: AttributeError on None
ThreadLoad ==
    /\ op = "monitor"
    /\ \E t \in 1..Len(threads) :
          /\ threads[t].pc = "load"
          /\ threads' = IF current_metrics # NoMetrics
                        THEN [threads EXCEPT ![t].pc = "append",
                                             ![t].ref = current_metrics.id]
                        ELSE [threads EXCEPT ![t].pc = "failed"]
    /\ UNCHANGED <<metrics_history, current_metrics, monitoring, records, monitor_thread,
                   main_pc>>
    /\ UNCHANGED monitorFrame

\* ".append(snapshot)" on the list loaded, then time.sleep(self.sample_interval)
ThreadAppend ==
    /\ op = "monitor"
    /\ \E t \in 1..Len(threads) :
          /\ threads[t].pc = "append"
          /\ LET r == records[threads[t].ref] IN
             records' = [records EXCEPT ![threads[t].ref] =
                [r EXCEPT !.snapshots = Min2(r.snapshots + 1, MaxSnapshots),
                          !.stale = r.stale \/ r.finalized,
                          !.late = r.late \/ r.returned,
                          !.foreign = r.foreign \/ threads[t].started_for # threads[t].ref]]
          /\ threads' = [threads EXCEPT ![t].pc = "while"]
    /\ UNCHANGED <<metrics_history, current_metrics, monitoring, monitor_thread, main_pc>>
    /\ UNCHANGED monitorFrame

NextMonitor ==
    \/ StartMonitoring \/ StopBegin \/ StopJoined \/ StopJoinTimeout
    \/ StopFinalize \/ StopReturn
    \/ ThreadWhile \/ ThreadIf \/ ThreadLoad \/ ThreadAppend
SpecMonitor == InitMonitor /\ [][NextMonitor]_vars

\* C25: a record that stop_monitoring has returned gets no snapshot after its
\* summary was computed nor after it was returned, and no sampling thread fails
\* on the cleared current record.
C25_ReturnedRecordIsFinal ==
    op = "monitor" =>
        /\ \A i \in 1..Len(records) :
              records[i].returned => (~records[i].stale /\ ~records[i].late)
        /\ \A t \in 1..Len(threads) : threads[t].pc # "failed"

\* C26: at most one sampling thread runs its loop at any time, and no thread
\* appends a snapshot to the record of an operation started after its own.
C26_OneThreadOwnRecord ==
    op = "monitor" =>
        /\ \A s, t \in 1..Len(threads) : (Running(s) /\ Running(t)) => s = t
        /\ \A i \in 1..Len(records) : ~records[i].foreign

\* C27: the batches read_batches yields from a local file, concatenated in the
\* order yielded, are the rows of the file in file order once the generator is
\* exhausted, and a leading part of them before.
C27_LocalBatchesAreTheFile ==
    op = "read_local" =>
        /\ Len(Concat(delivered)) <= Len(AllRows)
        /\ Concat(delivered) = SubSeq(AllRows, 1, Len(Concat(delivered)))
        /\ pc = "done" => Concat(delivered) = AllRows

\* a file of three rows read to its end: one row group re-chunked, another row
\* group after it, and an empty row group
C27_Witness ==
    /\ op = "read_local" /\ pc = "done"
    /\ Len(AllRows) = 3 /\ Len(delivered) >= 3
    /\ \E g \in 1..Len(file) : Len(file[g]) > chunk_size
    /\ \E g \in 1..Len(file) : Len(file[g]) = 0

\* C28: read_parquet_batch on a remote parquet file finishes without error and
\* has then yielded every row of the file once, in file order.
C28_RemoteYieldsTheFile ==
    (op = "read_remote" /\ path_ext = ".parquet" /\ pc \in {"done", "error"}) =>
        (pc = "done" /\ Concat(delivered) = AllRows)

\* C29: when select_columns_chunked was given an output path (and a positive
\* ceiling) and has completed, the file at that path holds every row of the
\* source once, in source order; None is returned only with the rows on disk.
C29_SelectOutputHoldsEveryRow ==
    (op = "select" /\ pc = "done" /\ output_path /\ max_memory_mb > 0) =>
        /\ out_file.rows = SelectColumns(AllRows)
        /\ result = ReturnedNone => (out_file.exists \/ AllRows = <<>>)

\* C30: the file a filter_rows_chunked run has written at output_path holds only
\* rows matched in that run, none of a file that was there before the call.
C30_OutputHoldsOnlyThisRun ==
    (op = "filter" /\ pc = "done" /\ output_path /\ total_matched > 0) =>
        RowSet(out_file.rows) \subseteq RowSet(SelectSeq(AllRows, Condition))

=============================================================================
